---- MODULE Spec2Model ----
(***************************************************************************)
(* A model of github.com/joiningdata/bam: the BAI bin arithmetic           *)
(* (getBin, getBins), the S4-LRU block cache (blockLRUCache), the loader   *)
(* (Load) and the region query (GetMap, noindexGetMap).                    *)
(*                                                                         *)
(* Three specifications share the variables:                               *)
(*   SpecBins   applies getBin and getBins to a query interval;            *)
(*   SpecCache  runs Set and Get calls against newLRUCache(c);             *)
(*   SpecBam    loads a file block by block and runs region queries.       *)
(***************************************************************************)
EXTENDS Integers, Sequences, FiniteSets, TLC

(***************************************************************************)
(* Bounds of the model.                                                    *)
(***************************************************************************)
\* query positions are m * 2^(14+3l) + d for m in 0..MaxMult
MaxMult == 2
\* cache keys (compressed block offsets) are 1..MaxKey
MaxKey == 4
\* cached values (block contents) are 1..MaxValue
MaxValue == 2
\* newLRUCache is called with a capacity in 1..MaxCapacity
MaxCapacity == 5
\* a cache with more than one item per queue is run for at most MaxOps calls
MaxOps == 7
\* a BAM file of the model holds 1..MaxRecs alignment records
MaxRecs == 3
\* Load and GetMap are followed for at most MaxVisits visits of one block
MaxVisits == 2

(***************************************************************************)
(* Generic helpers.                                                        *)
(***************************************************************************)
\* x >> n on non-negative integers
Shr(x, n) == x \div (2 ^ n)

\* the Go loop  for k := lo; k <= hi; k++ { res = append(res, k) }
Range(lo, hi) == IF hi < lo THEN << >> ELSE [i \in 1..(hi - lo + 1) |-> lo + i - 1]

SeqToSet(s) == {s[i] : i \in 1..Len(s)}

VARIABLES
  \* ---- SpecBins: one call of getBin / getBins
  beginPos,     \* the beginPos argument
  endPos,       \* the endPos argument
  binRes,       \* result of getBin, or -1 before the call
  binsRes,      \* result of getBins (a list), or << >> before the call
  binsDone,     \* TRUE once getBins has returned
  \* ---- SpecCache: the block cache
  capacity,     \* the argument newLRUCache was called with
  blocks,       \* the blockCache (AlignmentMap.blocks)
  lastOp,       \* the most recent cache call and what it returned
  nops,         \* the number of calls made so far (where they are counted)
  scen,         \* how far the calls so far follow Set 1,2,3,4 then Get(k)...
  latest,       \* SpecCacheHist: for each key, the value of its most recent Set
  \* ---- SpecBam: the files, the AlignmentMap, Load and GetMap
  file,         \* the BGZF blocks of the .bam file
  maxMem,       \* MaxBAMMemory
  bai,          \* the index held by the .bam.bai file; not present if there is none
  pc,           \* "closed", "load", "finish", "ready", "chunk", "block", "panic"
  partial,      \* AlignmentMap.partial
  blockAdvance, \* AlignmentMap.blockAdvance
  Index,        \* AlignmentMap.Index; not present when nil
  References,   \* AlignmentMap.References
  Alignments,   \* AlignmentMap.Alignments
  truepos,      \* Load: the offset of the block being read
  remainder,    \* Load and GetMap: the bytes left over by the last block
  completeHeader, \* Load: the header has been parsed
  stall,        \* how often in a row a block left the offset where it was
  query,        \* GetMap: the arguments refID, beginPos, endPos and the path
  chunks,       \* GetMap: the chunks of the selected bin
  ci,           \* GetMap: the index of the current chunk (from 1)
  pi,           \* GetMap: the offset of the block to fetch
  po,           \* GetMap: the offset inside that block
  p2,           \* GetMap: the block offset of the end of the chunk
  result,       \* GetMap: the rows
  examined,     \* GetMap: the records looked at, each with the row it gave
  progress,     \* the values BAMProgressFunc got in the current Load or GetMap
  \* ---- SpecIndex: one call of LoadIndex
  idxFile,      \* the bytes of the index file
  idxRes        \* what LoadIndex returned, or NotLoaded before the call

binVars == <<beginPos, endPos, binRes, binsRes, binsDone>>
cacheVars == <<capacity, blocks, lastOp, nops, scen, latest>>
cacheGhost == <<capacity, lastOp, nops, scen, latest>>
inputVars == <<file, maxMem, bai>>
mapVars == <<partial, blockAdvance, Index, References, Alignments>>
loadVars == <<truepos, completeHeader>>
queryVars == <<query, chunks, ci, pi, po, p2, result, examined>>
indexVars == <<idxFile, idxRes>>
bamVars == <<inputVars, indexVars, pc, mapVars, loadVars, remainder, stall, queryVars, progress>>

vars == <<binVars, cacheVars, bamVars>>

(***************************************************************************)
(* BAI bin arithmetic (index file of the repository).                      *)
(***************************************************************************)
\* 2^29, the largest coordinate of the binning scheme
MaxCoord == 2 ^ 29

\* getBin with the end of the interval taken as inclusive (endPos >> 14
\* instead of (endPos-1) >> 14)
getBinInclusiveEnd(b, e) ==
  LET ee == Shr(e, 14)
      bb == Shr(b, 14)
  IN IF bb = ee THEN 4681 + bb
     ELSE IF Shr(bb, 3) = Shr(ee, 3) THEN 585 + Shr(bb, 3)
     ELSE IF Shr(bb, 6) = Shr(ee, 6) THEN 73 + Shr(bb, 6)
     ELSE IF Shr(bb, 9) = Shr(ee, 9) THEN 9 + Shr(bb, 9)
     ELSE IF Shr(bb, 12) = Shr(ee, 12) THEN 1 + Shr(bb, 12)
     ELSE 0

\* IndexReference.getBin: endPos = (endPos-1) >> 14, beginPos >>= 14, then
\* the first level at which the two agree.  endPos is a uint64: for
\* endPos = 0 the subtraction wraps to 2^64-1, whose shifts (2^50-1 and
\* above 2^37) agree with those of no beginPos below 2^31, so the function
\* falls through every test and returns 0.
getBin(b, e) ==
  IF e = 0 THEN 0
  ELSE LET ee == Shr(e - 1, 14)
           bb == Shr(b, 14)
       IN IF bb = ee THEN ((2 ^ 15) - 1) \div 7 + bb
          ELSE IF Shr(bb, 3) = Shr(ee, 3) THEN ((2 ^ 12) - 1) \div 7 + Shr(bb, 3)
          ELSE IF Shr(bb, 6) = Shr(ee, 6) THEN ((2 ^ 9) - 1) \div 7 + Shr(bb, 6)
          ELSE IF Shr(bb, 9) = Shr(ee, 9) THEN ((2 ^ 6) - 1) \div 7 + Shr(bb, 9)
          ELSE IF Shr(bb, 12) = Shr(ee, 12) THEN ((2 ^ 3) - 1) \div 7 + Shr(bb, 12)
          ELSE 0

\* IndexReference.getBins: res starts as one zero (make([]uint32, 1, ...)),
\* then five loops append the bins of each level.  The second loop runs
\* k from 9 + beginPos>>9 up to 1 + (endPos>>9).
getBins(b, e) ==
  LET ee == Shr(e - 1, 14)
      bb == Shr(b, 14)
  IN <<0>>
       \o Range(1 + Shr(bb, 12), 1 + Shr(ee, 12))
       \o Range(9 + Shr(bb, 9), 1 + Shr(ee, 9))
       \o Range(73 + Shr(bb, 6), 73 + Shr(ee, 6))
       \o Range(585 + Shr(bb, 3), 585 + Shr(ee, 3))
       \o Range(4681 + bb, 4681 + ee)

\* the query positions of SpecBins: the level boundaries and their neighbours
Positions ==
  {p \in {m * (2 ^ (14 + 3 * l)) + d : m \in 0..MaxMult, l \in 0..5, d \in {-1, 0, 1}} :
     p >= 0 /\ p <= MaxCoord}

\* the state of the variables a specification does not use
IdleBins ==
  /\ beginPos = 0
  /\ endPos = 0
  /\ binRes = -1
  /\ binsRes = << >>
  /\ binsDone = FALSE

IdleCache ==
  /\ capacity = 0
  /\ blocks = [kind |-> "none"]
  /\ lastOp = [op |-> "none"]
  /\ nops = 0
  /\ scen = [sets |-> -1, key |-> 0, gets |-> 0]
  /\ latest = [on |-> FALSE, val |-> << >>]

\* a nil *Index, a missing index file
NoIndex == [present |-> FALSE, Refs |-> << >>]

NoQuery == [refID |-> 0, beginPos |-> 0, endPos |-> 0, path |-> "none"]

NotLoaded == [status |-> "none"]

IdleIndex ==
  /\ idxFile = << >>
  /\ idxRes = NotLoaded

IdleBam ==
  /\ file = << >>
  /\ maxMem = 0
  /\ bai = NoIndex
  /\ pc = "unused"
  /\ partial = FALSE
  /\ blockAdvance = << >>
  /\ Index = NoIndex
  /\ References = << >>
  /\ Alignments = << >>
  /\ truepos = 0
  /\ remainder = << >>
  /\ completeHeader = FALSE
  /\ stall = 0
  /\ query = NoQuery
  /\ chunks = << >>
  /\ ci = 0
  /\ pi = 0
  /\ po = 0
  /\ p2 = 0
  /\ result = << >>
  /\ examined = << >>
  /\ progress = << >>

InitBins ==
  /\ IdleCache
  /\ IdleBam
  /\ IdleIndex
  /\ beginPos \in Positions
  /\ endPos \in Positions
  /\ beginPos < endPos
  /\ binRes = -1
  /\ binsRes = << >>
  /\ binsDone = FALSE

CallGetBin ==
  /\ binRes = -1
  /\ binRes' = getBin(beginPos, endPos)
  /\ UNCHANGED <<beginPos, endPos, binsRes, binsDone, cacheVars, bamVars>>

CallGetBins ==
  /\ ~binsDone
  /\ binsRes' = getBins(beginPos, endPos)
  /\ binsDone' = TRUE
  /\ UNCHANGED <<beginPos, endPos, binRes, cacheVars, bamVars>>

NextBins == CallGetBin \/ CallGetBins

SpecBins == InitBins /\ [][NextBins]_vars

(***************************************************************************)
(* The block caches.                                                       *)
(*                                                                         *)
(* An S4-LRU cache is a record [kind, cap, data, queues, items]: items is  *)
(* the list of the cacheItems allocated so far, a node is an index into    *)
(* it, queues[0..3] are the four lists (front first) and data maps a key   *)
(* to a node.  A list element and the cacheItem it carries are one node:   *)
(* Get's promotion removes the element and pushes a new one for the same   *)
(* item, and repoints data[key], the only reference to the old element.    *)
(***************************************************************************)
Keys == 1..MaxKey
Values == 1..MaxValue
\* the nil slice Get returns on a miss
Nil == 0

EmptyMap == [x \in {} |-> 0]
MapPut(m, k, v) == [x \in (DOMAIN m) \cup {k} |-> IF x = k THEN v ELSE m[x]]
MapDelete(m, k) == [x \in (DOMAIN m) \ {k} |-> m[x]]

\* container/list: PushFront, Remove, MoveToFront (no-ops on an element of
\* another list), Back
PushFront(q, n) == <<n>> \o q
Remove(q, n) == SelectSeq(q, LAMBDA x : x # n)
MoveToFront(q, n) == IF n \in SeqToSet(q) THEN <<n>> \o Remove(q, n) ELSE q
Back(q) == q[Len(q)]

newMapCache == [kind |-> "map", m |-> EmptyMap]

mapCacheGet(c, key) ==
  IF key \in DOMAIN c.m THEN [c |-> c, value |-> c.m[key], ok |-> TRUE, path |-> "map"]
  ELSE [c |-> c, value |-> Nil, ok |-> FALSE, path |-> "miss"]

mapCacheSet(c, key, value) == [c EXCEPT !.m = MapPut(c.m, key, value)]

newLRUCache(n) ==
  [kind |-> "lru",
   cap |-> (n + 3) \div 4,
   data |-> EmptyMap,
   queues |-> [q \in 0..3 |-> << >>],
   items |-> << >>]

\* a promotion that moves the item up without touching its qid
PromoteKeepQid(c, key, v) ==
  LET q == c.items[v].qid
  IN [c EXCEPT !.queues = [@ EXCEPT ![q] = Remove(@, v), ![q + 1] = PushFront(@, v)],
               !.data = MapPut(@, key, v)]

\* Get, room in the next queue: Remove from the current queue, item.qid++,
\* PushFront on the next queue, data[key] = the new element
Promote(c, key, v) ==
  LET q == c.items[v].qid
  IN [c EXCEPT !.queues = [@ EXCEPT ![q] = Remove(@, v), ![q + 1] = PushFront(@, v)],
               !.items = [@ EXCEPT ![v].qid = q + 1],
               !.data = MapPut(@, key, v)]

\* a swap that exchanges the two items whole, qid included
SwapUpWithQid(c, v) ==
  LET item == c.items[v]
      w == Back(c.queues[item.qid + 1])
      other == c.items[w]
      items2 == [c.items EXCEPT ![v] = other, ![w] = item]
      data2 == MapPut(MapPut(c.data, items2[v].key, v), items2[w].key, w)
  IN [c |-> [c EXCEPT !.items = items2,
                      !.data = data2,
                      !.queues = [@ EXCEPT ![item.qid] = MoveToFront(@, v),
                                           ![other.qid] = MoveToFront(@, w)]],
      value |-> items2[w].value,
      ok |-> TRUE,
      path |-> "swap"]

\* Get, next queue full: swap key and value with the tail w of the next
\* queue, keep both qids, repoint data, move both to the front
SwapUp(c, v) ==
  LET item == c.items[v]
      w == Back(c.queues[item.qid + 1])
      other == c.items[w]
      items2 == [c.items EXCEPT ![v] = [qid |-> item.qid, key |-> other.key, value |-> other.value],
                                ![w] = [qid |-> other.qid, key |-> item.key, value |-> item.value]]
      data2 == MapPut(MapPut(c.data, items2[v].key, v), items2[w].key, w)
  IN [c |-> [c EXCEPT !.items = items2,
                      !.data = data2,
                      !.queues = [@ EXCEPT ![item.qid] = MoveToFront(@, v),
                                           ![other.qid] = MoveToFront(@, w)]],
      value |-> items2[w].value,
      ok |-> TRUE,
      path |-> "swap"]

\* blockLRUCache.Get
lruGet(c, key) ==
  IF key \notin DOMAIN c.data
    THEN [c |-> c, value |-> Nil, ok |-> FALSE, path |-> "miss"]
  ELSE LET v == c.data[key]
           item == c.items[v]
       IN IF item.qid = 3
            THEN [c |-> [c EXCEPT !.queues[3] = MoveToFront(@, v)],
                  value |-> item.value, ok |-> TRUE, path |-> "top"]
          ELSE IF Len(c.queues[item.qid + 1]) < c.cap
            THEN [c |-> Promote(c, key, v), value |-> item.value, ok |-> TRUE,
                  path |-> "promote"]
          ELSE SwapUp(c, v)

\* a Set that allocates a node whatever the length of queue 0
lruSetNoReuse(c, key, value) ==
  LET n == Len(c.items) + 1
  IN [c EXCEPT !.items = Append(@, [qid |-> 0, key |-> key, value |-> value]),
               !.queues[0] = PushFront(@, n),
               !.data = MapPut(@, key, n)]

\* blockLRUCache.Set: a new item at the front of queue 0 while it has room,
\* else the tail item of queue 0 is reused for the new key
lruSet(c, key, value) ==
  IF Len(c.queues[0]) < c.cap
    THEN LET n == Len(c.items) + 1
         IN [c EXCEPT !.items = Append(@, [qid |-> 0, key |-> key, value |-> value]),
                      !.queues[0] = PushFront(@, n),
                      !.data = MapPut(@, key, n)]
  ELSE LET e == Back(c.queues[0])
           item == c.items[e]
       IN [c EXCEPT !.data = MapPut(MapDelete(@, item.key), key, e),
                    !.items = [@ EXCEPT ![e] = [qid |-> item.qid, key |-> key, value |-> value]],
                    !.queues[0] = MoveToFront(@, e)]

\* the blockCache interface
cacheGet(c, key) == IF c.kind = "map" THEN mapCacheGet(c, key) ELSE lruGet(c, key)
cacheSet(c, key, value) == IF c.kind = "map" THEN mapCacheSet(c, key, value) ELSE lruSet(c, key, value)

\* scen follows the calls made since construction: sets counts the leading
\* calls Set 1, Set 2, ... (at most four), key and gets are the key and
\* the number (saturating at ScenGets) of the Get calls that followed, all
\* of one key; sets = -1 once the calls left that pattern.
ScenGets == 5
ScenOff == [sets |-> -1, key |-> 0, gets |-> 0]
ScenAfterSet(sc, k) ==
  IF sc.gets = 0 /\ sc.sets = k - 1 /\ k <= 4 THEN [sc EXCEPT !.sets = k] ELSE ScenOff
ScenAfterGet(sc, k) ==
  IF sc.sets = 4 /\ (sc.gets = 0 \/ sc.key = k)
    THEN [sets |-> 4, key |-> k, gets |-> IF sc.gets < ScenGets THEN sc.gets + 1 ELSE ScenGets]
  ELSE ScenOff

InitCache ==
  /\ IdleBins
  /\ IdleBam
  /\ IdleIndex
  /\ capacity \in 1..MaxCapacity
  /\ blocks = newLRUCache(capacity)
  /\ lastOp = [op |-> "none"]
  /\ nops = 0
  /\ scen = [sets |-> 0, key |-> 0, gets |-> 0]
  /\ latest = [on |-> FALSE, val |-> EmptyMap]

\* Caches with one item per queue are explored exhaustively; the others,
\* and all when the history of the Set calls is kept, up to MaxOps calls.
Counted == blocks.cap > 1 \/ latest.on
MayCall == ~Counted \/ nops < MaxOps
CountCall == nops' = IF Counted THEN nops + 1 ELSE nops

CacheSet(k, v) ==
  /\ MayCall
  /\ CountCall
  /\ blocks' = lruSet(blocks, k, v)
  /\ lastOp' = [op |-> "Set", key |-> k, value |-> v]
  /\ scen' = ScenAfterSet(scen, k)
  /\ latest' = IF latest.on THEN [latest EXCEPT !.val = MapPut(@, k, v)] ELSE latest
  /\ UNCHANGED <<capacity, binVars, bamVars>>

CacheGet(k) ==
  LET r == lruGet(blocks, k)
  IN /\ MayCall
     /\ CountCall
     /\ blocks' = r.c
     /\ lastOp' = [op |-> "Get", key |-> k, value |-> r.value, ok |-> r.ok,
                   path |-> r.path]
     /\ scen' = ScenAfterGet(scen, k)
     /\ UNCHANGED <<capacity, latest, binVars, bamVars>>

NextCache ==
  \/ \E k \in Keys, v \in Values : CacheSet(k, v)
  \/ \E k \in Keys : CacheGet(k)

SpecCache == InitCache /\ [][NextCache]_vars

\* the same calls with the history of the Set calls kept
InitCacheHist ==
  /\ IdleBins
  /\ IdleBam
  /\ IdleIndex
  /\ capacity \in 1..MaxCapacity
  /\ blocks = newLRUCache(capacity)
  /\ lastOp = [op |-> "none"]
  /\ nops = 0
  /\ scen = ScenOff
  /\ latest = [on |-> TRUE, val |-> EmptyMap]

SpecCacheHist == InitCacheHist /\ [][NextCache]_vars

(***************************************************************************)
(* Bytes, little-endian fields and the record parser.                      *)
(***************************************************************************)
\* a length no buffer of the model reaches: what a uint32 of 2^31 or more
\* amounts to in the comparisons  len(r) < n + 4
Huge == 1000000

\* binary.LittleEndian.Uint32(r[i:]) (i counts from 0, as in Go)
Uint32At(r, i) ==
  IF r[i + 4] >= 128 THEN Huge
  ELSE r[i + 1] + 256 * r[i + 2] + 65536 * r[i + 3] + 16777216 * r[i + 4]

\* int32(binary.LittleEndian.Uint32(r[i:]))
Int32At(r, i) ==
  r[i + 1] + 256 * r[i + 2] + 65536 * r[i + 3]
    + 16777216 * (IF r[i + 4] >= 128 THEN r[i + 4] - 256 ELSE r[i + 4])

\* binary.LittleEndian.Uint16(r[i:])
Uint16At(r, i) == r[i + 1] + 256 * r[i + 2]

\* r[i:j] of Go
Slice(r, i, j) == SubSeq(r, i + 1, j)
\* r[i:] of Go
SliceFrom(r, i) == SubSeq(r, i + 1, Len(r))

\* the IUPAC table of UnpackSequence
packmap == <<"=", "A", "C", "M", "G", "R", "S", "V", "T", "W", "Y", "H", "K", "D", "B", "N">>

\* strings.Repeat(" ", n)
Spaces(n) == [i \in 1..n |-> " "]

\* parseAlignment: the fixed fields, the read name without its NUL, the
\* cigar, the packed sequence of (1+seqLen)/2 bytes, whose last low nibble
\* is cleared when seqLen is odd, and the qualities.  The records of the
\* model carry no auxiliary tags, so the tag loop is not entered.
parseAlignment(r) ==
  LET readNameLen == r[9]
      cigarOpCount == Uint16At(r, 12)
      seqLen == Int32At(r, 16)
      offs1 == 32 + readNameLen
      offs2 == offs1 + 4 * cigarOpCount
      nseq == (1 + seqLen) \div 2
      offs3 == offs2 + nseq
      raw == Slice(r, offs2, offs3)
  IN [refID |-> Int32At(r, 0),
      pos |-> Int32At(r, 4),
      mapq |-> r[10],
      bin |-> Uint16At(r, 10),
      cigarOpCount |-> cigarOpCount,
      flag |-> Uint16At(r, 14),
      seqLen |-> seqLen,
      nextRefID |-> Int32At(r, 20),
      nextPos |-> Int32At(r, 24),
      tlen |-> Int32At(r, 28),
      ReadName |-> Slice(r, 32, offs1 - 1),
      cigarPacked |-> [i \in 1..cigarOpCount |-> Uint32At(r, offs1 + 4 * (i - 1))],
      seqPacked |-> IF seqLen % 2 = 1
                      THEN [raw EXCEPT ![Len(raw)] = (@ \div 16) * 16]
                      ELSE raw,
      qual |-> Slice(r, offs3, offs3 + seqLen)]

\* UnpackSequence: two symbols per byte, upper nibble first, then one
\* trailing "=" is dropped.  r[len(r)-1] of an empty r is an index out of
\* range: the call panics on an empty packed sequence.
UnpackPanics(packed) == Len(packed) = 0
UnpackSequence(packed) ==
  LET r == [i \in 1..(2 * Len(packed)) |->
              IF i % 2 = 1 THEN packmap[((packed[(i + 1) \div 2] \div 16) % 16) + 1]
              ELSE packmap[(packed[i \div 2] % 16) + 1]]
  IN IF r[Len(r)] = "=" THEN SubSeq(r, 1, Len(r) - 1) ELSE r

\* the range test of GetMap and noindexGetMap:
\*   ba.pos+ba.tlen >= int32(beginPos) && ba.pos <= int32(endPos)
InRange(ba, b, e) == ba.pos + ba.tlen >= b /\ ba.pos <= e

\* int(endPos - beginPos): the width of the row; negative when the uint64
\* difference wraps, and then seq[:epad] panics
RowPanics(b, e) == e < b

\* a row that is padded on the right but never cut
FormatRowNoTrim(ba, b, e) ==
  LET seq0 == UnpackSequence(ba.seqPacked)
      px == ba.pos - b
      seq1 == IF px > 0 THEN Spaces(px) \o seq0
              ELSE IF -px >= Len(seq0) THEN << >> ELSE SliceFrom(seq0, -px)
      epad == e - b
  IN IF Len(seq1) > epad THEN seq1 ELSE seq1 \o Spaces(epad - Len(seq1))

\* the formatting of one record (the same code in GetMap and
\* noindexGetMap): pad on the left when pos > beginPos, else cut px bases;
\* then cut or pad on the right to epad characters
FormatRow(ba, b, e) ==
  LET seq0 == UnpackSequence(ba.seqPacked)
      px == ba.pos - b
      seq1 == IF px > 0 THEN Spaces(px) \o seq0
              ELSE IF -px >= Len(seq0) THEN << >> ELSE SliceFrom(seq0, -px)
      epad == e - b
  IN IF Len(seq1) > epad THEN Slice(seq1, 0, epad) ELSE seq1 \o Spaces(epad - Len(seq1))

(***************************************************************************)
(* The BAM files of the model.                                             *)
(*                                                                         *)
(* A file is a list of BGZF blocks [bc, data]: bc is the value of the BC   *)
(* subfield (block length - 1) and data the uncompressed payload.  The     *)
(* payloads are scaled down to a few dozen bytes; the block lengths take   *)
(* the values of real files.  The payloads together are the BAM stream:    *)
(* magic, header text, reference table, length-prefixed records.           *)
(***************************************************************************)
\* 2^14, the span of a leaf bin
LeafSpan == 2 ^ 14

\* n as four (two) little-endian bytes; n may be a negative int32
LE32(n) ==
  LET m == IF n >= 0 THEN n ELSE (n + 2147483647) + 1
  IN <<m % 256, (m \div 256) % 256, (m \div 65536) % 256,
       (m \div 16777216) + (IF n >= 0 THEN 0 ELSE 128)>>
LE16(n) == <<n % 256, n \div 256>>

\* the nibbles of a sequence packed two per byte; the spare low nibble of an
\* odd sequence is filled with junk (15)
PackSeq(seq) ==
  [i \in 1..((Len(seq) + 1) \div 2) |->
     16 * seq[2 * i - 1] + (IF 2 * i <= Len(seq) THEN seq[2 * i] ELSE 15)]

\* the bytes of one alignment record after its length prefix: an empty read
\* name (one NUL), no cigar, no tags; the layout parseAlignment reads
EncodeBody(rec) ==
  LE32(rec.refID) \o LE32(rec.pos) \o <<1, 0>> \o LE16(rec.bin) \o LE16(0) \o LE16(0)
    \o LE32(Len(rec.seq)) \o LE32(-1) \o LE32(-1) \o LE32(rec.tlen)
    \o <<0>> \o PackSeq(rec.seq) \o [i \in 1..Len(rec.seq) |-> 255]

\* a record with its 4-byte block_size prefix
EncodeRecord(rec) == LE32(Len(EncodeBody(rec))) \o EncodeBody(rec)

\* the reference table: two references "a" and "bbbb" (35 bytes with the
\* magic and the empty header text, so that blocks of 17 and 34 bytes end
\* in the first and in the second entry of the table)
NumRefs == 2
RefLength == LeafSpan + 8
HeaderBytes ==
  <<66, 65, 77, 1>> \o LE32(0) \o LE32(NumRefs)
    \o LE32(2) \o <<97, 0>> \o LE32(RefLength)
    \o LE32(5) \o <<98, 98, 98, 98, 0>> \o LE32(RefLength)

\* the records a file is made of, in coordinate order: around the boundary
\* of the first two leaf bins, on two references, with sequences of even,
\* odd and zero length and a base "=" (nibble 0)
Pool ==
  << [refID |-> 0, pos |-> LeafSpan - 4, tlen |-> 4, seq |-> <<1, 2, 4, 8>>, bin |-> 4681],
     [refID |-> 0, pos |-> LeafSpan - 3, tlen |-> 0, seq |-> << >>, bin |-> 4681],
     [refID |-> 0, pos |-> LeafSpan - 2, tlen |-> 0, seq |-> <<1, 2, 4>>, bin |-> 585],
     [refID |-> 0, pos |-> LeafSpan - 1, tlen |-> 1, seq |-> <<8>>, bin |-> 4681],
     [refID |-> 0, pos |-> LeafSpan + 1, tlen |-> -2, seq |-> <<4, 0>>, bin |-> 4682],
     [refID |-> 1, pos |-> LeafSpan - 4, tlen |-> 2, seq |-> <<2, 2>>, bin |-> 4681] >>

\* the sub-lists of Pool with 1..MaxRecs records, as increasing index lists
RECURSIVE IncreasingLists(_, _)
IncreasingLists(lo, n) ==
  IF n = 0 THEN {<< >>}
  ELSE UNION {{<<i>> \o t : t \in IncreasingLists(i + 1, n - 1)} : i \in lo..Len(Pool)}

RecordLists == UNION {IncreasingLists(1, n) : n \in 1..MaxRecs}

RECURSIVE Concat(_)
Concat(ss) == IF Len(ss) = 0 THEN << >> ELSE Head(ss) \o Concat(Tail(ss))

\* the uncompressed stream of a record list
StreamOf(rl) == HeaderBytes \o Concat([i \in 1..Len(rl) |-> EncodeRecord(Pool[rl[i]])])

\* the stream cut into payloads of a fixed size (the last one shorter)
CutFixed(st, size) ==
  [j \in 1..((Len(st) + size - 1) \div size) |->
     SubSeq(st, (j - 1) * size + 1, IF j * size < Len(st) THEN j * size ELSE Len(st))]

\* the stream cut at the record boundaries: the header, then one record
\* per block
CutAligned(rl) == <<HeaderBytes>> \o [i \in 1..Len(rl) |-> EncodeRecord(Pool[rl[i]])]

\* the ways a stream is cut: one block, blocks of 17 or 34 bytes (records
\* and length prefixes straddle the blocks, the header too), blocks of 34
\* bytes of a stream that lacks the last 3 bytes of its last record, or
\* aligned
Cuts == {"one", "by17", "by34", "short", "aligned"}
PayloadsOf(rl, cut) ==
  CASE cut = "one" -> <<StreamOf(rl)>>
    [] cut = "by17" -> CutFixed(StreamOf(rl), 17)
    [] cut = "by34" -> CutFixed(StreamOf(rl), 34)
    [] cut = "short" -> CutFixed(SubSeq(StreamOf(rl), 1, Len(StreamOf(rl)) - 3), 34)
    [] OTHER -> CutAligned(rl)

\* the BC values of the model: a small block, a block of 65535 bytes and a
\* block of 65536 bytes, the largest a BGZF block can be
SmallBC == 99
BigBC == 65534
FullBC == 65535
\* the BC value of the 28-byte end-of-file block (bgzfEOF[16..17] = 0x1b, 0)
EofBC == 27

\* the blocks of a file: the payloads, block full with BC = FullBC and the
\* others with BC = bc, then the empty end-of-file block
FileOf(rl, cut, bc, full) ==
  LET pl == PayloadsOf(rl, cut)
  IN [j \in 1..Len(pl) |-> [bc |-> IF j = full THEN FullBC ELSE bc, data |-> pl[j]]]
       \o <<[bc |-> EofBC, data |-> << >>]>>

\* the file offset of block j, and the block that starts at offset p (0 if
\* none does)
RECURSIVE OffsetOf(_, _)
OffsetOf(f, j) == IF j = 1 THEN 0 ELSE OffsetOf(f, j - 1) + f[j - 1].bc + 1
FileSize(f) == OffsetOf(f, Len(f)) + f[Len(f)].bc + 1
BlockAt(f, p) ==
  LET js == {j \in 1..Len(f) : OffsetOf(f, j) = p}
  IN IF js = {} THEN 0 ELSE CHOOSE j \in js : TRUE

(***************************************************************************)
(* The companion index of a file.                                          *)
(*                                                                         *)
(* An Offset (a 64-bit virtual offset) is kept as its two parts            *)
(* [c |-> value >> 16, u |-> value & 0xFFFF].  The index of a file has,    *)
(* for each reference and each bin, one chunk per run of successive        *)
(* records of that bin, from the offset of the first to the offset after   *)
(* the last.                                                               *)
(***************************************************************************)
Compressed(o) == o.c
Uncompressed(o) == o.u

\* where payload j starts in the stream, and the Offset of stream position s
RECURSIVE PayloadStart(_, _)
PayloadStart(f, j) == IF j = 1 THEN 0 ELSE PayloadStart(f, j - 1) + Len(f[j - 1].data)
OffsetOfPos(f, s) ==
  LET j == CHOOSE x \in 1..Len(f) :
             /\ PayloadStart(f, x) <= s
             /\ (x = Len(f) \/ s < PayloadStart(f, x) + Len(f[x].data))
  IN [c |-> OffsetOf(f, j), u |-> s - PayloadStart(f, j)]

\* where record i of the list starts in the stream (i = Len+1: the end)
RECURSIVE RecordStart(_, _)
RecordStart(rl, i) ==
  IF i = 1 THEN Len(HeaderBytes)
  ELSE RecordStart(rl, i - 1) + Len(EncodeRecord(Pool[rl[i - 1]]))

\* the runs of successive records of reference ref and bin bid
RunStarts(rl, ref, bid) ==
  {i \in 1..Len(rl) :
     /\ Pool[rl[i]].refID = ref /\ Pool[rl[i]].bin = bid
     /\ (i = 1 \/ Pool[rl[i - 1]].refID # ref \/ Pool[rl[i - 1]].bin # bid)}
RunEnd(rl, ref, bid, i) ==
  CHOOSE k \in i..Len(rl) :
     /\ \A m \in i..k : Pool[rl[m]].refID = ref /\ Pool[rl[m]].bin = bid
     /\ (k = Len(rl) \/ Pool[rl[k + 1]].refID # ref \/ Pool[rl[k + 1]].bin # bid)

RECURSIVE SortedSeq(_)
SortedSeq(S) ==
  IF S = {} THEN << >>
  ELSE LET m == CHOOSE x \in S : \A y \in S : x <= y IN <<m>> \o SortedSeq(S \ {m})

ChunksOf(f, rl, ref, bid) ==
  LET starts == SortedSeq(RunStarts(rl, ref, bid))
  IN [n \in 1..Len(starts) |->
        [Begin |-> OffsetOfPos(f, RecordStart(rl, starts[n])),
         End |-> OffsetOfPos(f, RecordStart(rl, RunEnd(rl, ref, bid, starts[n]) + 1))]]

IndexOf(f, rl) ==
  [present |-> TRUE,
   Refs |-> [r \in 0..(NumRefs - 1) |->
     [Bins |-> LET bids == {Pool[rl[i]].bin : i \in {x \in 1..Len(rl) : Pool[rl[x]].refID = r}}
               IN [bid \in bids |-> ChunksOf(f, rl, r, bid)]]]]

(***************************************************************************)
(* The index file and LoadIndex.                                           *)
(***************************************************************************)
\* an Offset as its 8 little-endian bytes, and the Offset read at r[i:]
EncodeOffset(o) == LE16(o.u) \o LE32(o.c) \o <<0, 0>>
OffsetAt(r, i) ==
  [c |-> IF r[i + 7] # 0 \/ r[i + 8] # 0 THEN Huge ELSE Uint32At(r, i + 2),
   u |-> Uint16At(r, i)]

\* the bin that holds the counts of a reference instead of chunks
MetaBin == 37450

\* the bytes of an index file: the magic, n_ref, and for each reference its
\* bins (each with its chunks) and its linear index (one interval here);
\* with meta the first reference has the bin MetaBin as well
EncodeChunk(ch) == EncodeOffset(ch.Begin) \o EncodeOffset(ch.End)
EncodeBin(bid, chs) ==
  LE32(bid) \o LE32(Len(chs)) \o Concat([n \in 1..Len(chs) |-> EncodeChunk(chs[n])])
EncodeRef(ref, meta) ==
  LET bids == SortedSeq(DOMAIN ref.Bins)
      zero == [c |-> 0, u |-> 0]
      counts == [Begin |-> [c |-> 0, u |-> Len(bids)], End |-> zero]
  IN LE32(Len(bids) + (IF meta THEN 1 ELSE 0))
       \o Concat([n \in 1..Len(bids) |-> EncodeBin(bids[n], ref.Bins[bids[n]])])
       \o (IF meta THEN EncodeBin(MetaBin, <<[Begin |-> zero, End |-> zero], counts>>)
           ELSE << >>)
       \o LE32(1) \o EncodeOffset(zero)
EncodeIndex(magic, idx, meta) ==
  magic \o LE32(NumRefs)
    \o Concat([n \in 1..NumRefs |-> EncodeRef(idx.Refs[n - 1], meta /\ n = 1)])

\* the magic of an index file, and other first four bytes: the magic of a
\* .bam file, a later version, zeros
BaiMagic == <<66, 65, 73, 1>>
Magics == {BaiMagic, <<66, 65, 77, 1>>, <<66, 65, 73, 2>>, <<0, 0, 0, 0>>}

\* an IndexReference of make([]IndexReference, n)
NewIndexReference ==
  [Bins |-> EmptyMap, Intervals |-> << >>, Unmapped |-> [Begin |-> [c |-> 0, u |-> 0],
                                                        End |-> [c |-> 0, u |-> 0]],
   TotalMapped |-> [c |-> 0, u |-> 0], TotalUnmapped |-> [c |-> 0, u |-> 0]]

\* the loop of LoadIndex over the nb bins of a reference, from offset offs:
\* 8 bytes (bin, n_chunk), then the chunks; the bin MetaBin is kept in
\* Unmapped, TotalMapped and TotalUnmapped (b[1] panics when it has fewer
\* than two chunks); a short read is an error
RECURSIVE readBins(_, _, _, _)
readBins(f, offs, nb, r) ==
  IF nb <= 0 THEN [status |-> "ok", offs |-> offs, ref |-> r]
  ELSE IF Len(f) - offs < 8 THEN [status |-> "error", offs |-> offs, ref |-> r]
  ELSE LET bid == Uint32At(f, offs)
           nc == Int32At(f, offs + 4)
           next == offs + 8 + 16 * nc
           b == [n \in 1..nc |-> [Begin |-> OffsetAt(f, offs + 8 + 16 * (n - 1)),
                                  End |-> OffsetAt(f, offs + 16 + 16 * (n - 1))]]
       IN IF nc < 0 THEN [status |-> "panic", offs |-> offs, ref |-> r]
          ELSE IF Len(f) - (offs + 8) < 16 * nc THEN [status |-> "error", offs |-> offs, ref |-> r]
          ELSE IF bid = MetaBin
            THEN IF nc < 2 THEN [status |-> "panic", offs |-> offs, ref |-> r]
                 ELSE readBins(f, next, nb - 1,
                               [r EXCEPT !.Unmapped = b[1], !.TotalMapped = b[2].Begin,
                                         !.TotalUnmapped = b[2].End])
          ELSE readBins(f, next, nb - 1, [r EXCEPT !.Bins = MapPut(r.Bins, bid, b)])

\* the loop of LoadIndex over the n references, reference i next: n_bin,
\* a progress call, the bins, n_intv and the intervals
RECURSIVE readRefs(_, _, _, _, _, _)
readRefs(f, offs, i, n, refs, prog) ==
  IF i >= n THEN [status |-> "ok", refs |-> refs, prog |-> prog]
  ELSE IF Len(f) - offs < 4 THEN [status |-> "error", refs |-> refs, prog |-> prog]
  ELSE LET nb == Int32At(f, offs)
           prog1 == Append(prog, (i * 100) \div n)
           rb == readBins(f, offs + 4, nb, NewIndexReference)
       IN IF rb.status # "ok" THEN [status |-> rb.status, refs |-> refs, prog |-> prog1]
          ELSE IF Len(f) - rb.offs < 4 THEN [status |-> "error", refs |-> refs, prog |-> prog1]
          ELSE LET ni == Int32At(f, rb.offs)
                   iv == [k \in 1..ni |-> OffsetAt(f, rb.offs + 4 + 8 * (k - 1))]
               IN IF ni < 0 THEN [status |-> "panic", refs |-> refs, prog |-> prog1]
                  ELSE IF Len(f) - (rb.offs + 4) < 8 * ni
                    THEN [status |-> "error", refs |-> refs, prog |-> prog1]
                  ELSE readRefs(f, rb.offs + 4 + 8 * ni, i + 1, n,
                                [refs EXCEPT ![i] = [rb.ref EXCEPT !.Intervals = iv]], prog1)

\* LoadIndex on the bytes f of an existing file: 8 bytes are read into tmp
\* and compared with the 4 bytes B, A, M, 1 (an error when they are equal);
\* n_ref is tmp[4:]; then the references.  What is returned: the status,
\* the Index (not present when nil) and the progress values reported
LoadIndex(f) ==
  IF Len(f) < 8 THEN [status |-> "error", index |-> NoIndex, prog |-> << >>]
  ELSE LET tmp == Slice(f, 0, 8)
       IN IF tmp = <<66, 65, 77, 1>>
            THEN [status |-> "error", index |-> NoIndex, prog |-> << >>]
          ELSE LET n == Int32At(tmp, 4)
                   rr == readRefs(f, 8, 0, n, [r \in 0..(n - 1) |-> NewIndexReference], << >>)
               IN IF n < 0 THEN [status |-> "panic", index |-> NoIndex, prog |-> << >>]
                  ELSE IF rr.status # "ok"
                    THEN [status |-> rr.status, index |-> NoIndex, prog |-> rr.prog]
                  ELSE [status |-> "ok", index |-> [present |-> TRUE, Refs |-> rr.refs],
                        prog |-> Append(rr.prog, -1)]

\* the index files LoadIndex is called with: the indexes of the files of
\* the model under each magic, whole and cut short
IndexCuts == {0, 3, 7, 8, 11, 20, 40}
IndexFiles ==
  LET whole == {EncodeIndex(m, IndexOf(FileOf(rl, "by34", SmallBC, 0), rl), meta) :
                  m \in Magics, rl \in RecordLists, meta \in BOOLEAN}
  IN whole \cup {SubSeq(x, 1, k) : x \in whole, k \in IndexCuts}

InitIndex ==
  /\ IdleBins
  /\ IdleCache
  /\ IdleBam
  /\ idxFile \in IndexFiles
  /\ idxRes = NotLoaded

CallLoadIndex ==
  /\ idxRes = NotLoaded
  /\ idxRes' = LoadIndex(idxFile)
  /\ UNCHANGED <<idxFile, binVars, cacheVars, inputVars, pc, mapVars, loadVars, remainder,
                 stall, queryVars, progress>>

NextIndex == CallLoadIndex
SpecIndex == InitIndex /\ [][NextIndex]_vars

(***************************************************************************)
(* Load.                                                                   *)
(***************************************************************************)
\* parseNext: whole records are parsed and appended to Alignments, the
\* incomplete tail is returned
RECURSIVE parseNext(_, _)
parseNext(r, als) ==
  IF Len(r) >= 4
    THEN LET blocksize == Uint32At(r, 0)
         IN IF Len(r) < blocksize + 4 THEN [rest |-> r, als |-> als]
            ELSE parseNext(SliceFrom(r, 4 + blocksize),
                           Append(als, parseAlignment(Slice(r, 4, 4 + blocksize))))
  ELSE [rest |-> r, als |-> als]

\* a loop that keeps the references read so far when the bytes run out
RECURSIVE parseRefsKeepRead(_, _, _, _)
parseRefsKeepRead(r, offs, n, refs) ==
  IF n = 0 THEN [ok |-> TRUE, offs |-> offs, refs |-> refs]
  ELSE IF Len(r) - offs < 4 THEN [ok |-> FALSE, offs |-> offs, refs |-> refs]
  ELSE LET nameLength == Uint32At(r, offs)
       IN IF Len(r) - (offs + 4) < nameLength + 4
            THEN [ok |-> FALSE, offs |-> offs, refs |-> refs]
          ELSE parseRefsKeepRead(r, offs + 8 + nameLength, n - 1,
                                 Append(refs, [Name |-> Slice(r, offs + 4, offs + 4 + nameLength - 1),
                                               Length |-> Uint32At(r, offs + 4 + nameLength)]))

\* the loop of parseHead over the reference table: ok is FALSE when the
\* bytes run out, and then the table read so far is dropped
RECURSIVE parseRefs(_, _, _, _)
parseRefs(r, offs, n, refs) ==
  IF n = 0 THEN [ok |-> TRUE, offs |-> offs, refs |-> refs]
  ELSE IF Len(r) - offs < 4 THEN [ok |-> FALSE, offs |-> offs, refs |-> << >>]
  ELSE LET nameLength == Uint32At(r, offs)
       IN IF Len(r) - (offs + 4) < nameLength + 4
            THEN [ok |-> FALSE, offs |-> offs, refs |-> << >>]
          ELSE parseRefs(r, offs + 8 + nameLength, n - 1,
                         Append(refs, [Name |-> Slice(r, offs + 4, offs + 4 + nameLength - 1),
                                       Length |-> Uint32At(r, offs + 4 + nameLength)]))

\* parseHead: the header text, the reference table (appended to
\* References), then parseNext on what follows; (r, false) when r is too
\* short.  The first block of a file of the model has the 8 bytes the
\* first reads need.
parseHead(r, refs, als) ==
  LET headLength == Uint32At(r, 4)
  IN IF Len(r) < 12 + headLength
       THEN [rest |-> r, ok |-> FALSE, refs |-> refs, als |-> als]
     ELSE LET numRefs == Uint32At(r, 8 + headLength)
              pr == parseRefs(r, 12 + headLength, numRefs, refs)
          IN IF ~pr.ok THEN [rest |-> r, ok |-> FALSE, refs |-> pr.refs, als |-> als]
             ELSE LET pn == parseNext(SliceFrom(r, pr.offs), als)
                  IN [rest |-> pn.rest, ok |-> TRUE, refs |-> pr.refs, als |-> pn.als]

\* the default of MaxBAMMemory, and a budget of one cached block
DefaultMemory == 500 * 1024 * 1024
MemChoices == {DefaultMemory, 65536}

InitBam ==
  /\ IdleBins
  /\ IdleCache
  /\ \E rl \in RecordLists, cut \in Cuts, bc \in {SmallBC, BigBC}, withIndex \in BOOLEAN :
       \E full \in 0..(IF cut = "aligned" THEN Len(rl) + 1 ELSE 0) :
         /\ file = FileOf(rl, cut, bc, full)
         /\ bai = IF withIndex THEN IndexOf(file, rl) ELSE NoIndex
  /\ maxMem \in MemChoices
  /\ IdleIndex
  /\ pc = "closed"
  /\ partial = FALSE
  /\ blockAdvance = EmptyMap
  /\ Index = NoIndex
  /\ References = << >>
  /\ Alignments = << >>
  /\ truepos = 0
  /\ remainder = << >>
  /\ completeHeader = FALSE
  /\ stall = 0
  /\ query = NoQuery
  /\ chunks = << >>
  /\ ci = 0
  /\ pi = 0
  /\ po = 0
  /\ p2 = 0
  /\ result = << >>
  /\ examined = << >>
  /\ progress = << >>

\* Load up to the block loop: the file ends with the end-of-file block, sz
\* is the offset of that block; the cache is an S4-LRU and the map partial
\* when sz / 65535 exceeds MaxBAMCachedBlocks = MaxBAMMemory / 65536
LoadOpen ==
  /\ pc = "closed"
  /\ LET sz == FileSize(file) - 28
         MaxBAMCachedBlocks == maxMem \div 65536
         numBlocks == sz \div 65535
     IN IF numBlocks > MaxBAMCachedBlocks
          THEN blocks' = newLRUCache(MaxBAMCachedBlocks) /\ partial' = TRUE
          ELSE blocks' = newMapCache /\ partial' = FALSE
  /\ blockAdvance' = EmptyMap
  /\ remainder' = << >>
  /\ completeHeader' = FALSE
  /\ truepos' = 0
  /\ progress' = << >>
  /\ pc' = "load"
  /\ UNCHANGED <<binVars, cacheGhost, inputVars, indexVars, Index, References, Alignments, stall, queryVars>>

\* bsize := binary.LittleEndian.Uint16(h.Extra[4:]) + 1, a uint16
BlockSize16(bc) == (bc + 1) % 65536

\* one pass of the block loop of Load: the block at truepos is read, its
\* length noted in blockAdvance, its payload cached (not in partial mode)
\* and parsed after the bytes left over; truepos moves on by bsize and
\* the loop ends at the end of the file, or in partial mode once the
\* header is complete
LoadBlock ==
  /\ pc = "load"
  /\ stall < MaxVisits
  /\ LET j == BlockAt(file, truepos)
         bsize == BlockSize16(file[j].bc)
         data == remainder \o file[j].data
         ph == IF completeHeader
                 THEN LET pn == parseNext(data, Alignments)
                      IN [rest |-> pn.rest, ok |-> TRUE, refs |-> References, als |-> pn.als]
               ELSE parseHead(data, References, Alignments)
     IN /\ blockAdvance' = MapPut(blockAdvance, truepos, bsize)
        /\ blocks' = IF partial THEN blocks ELSE cacheSet(blocks, truepos, file[j].data)
        /\ progress' = IF partial THEN progress
                       ELSE Append(progress, (truepos * 100) \div (FileSize(file) - 28))
        /\ remainder' = ph.rest
        /\ completeHeader' = ph.ok
        /\ References' = ph.refs
        /\ Alignments' = ph.als
        /\ IF ~completeHeader /\ partial /\ ph.ok
             THEN /\ pc' = "finish"
                  /\ UNCHANGED <<truepos, stall>>
           ELSE /\ truepos' = truepos + bsize
                /\ stall' = IF bsize = 0 THEN stall + 1 ELSE 0
                /\ pc' = IF truepos + bsize = FileSize(file) THEN "finish" ELSE "load"
  /\ UNCHANGED <<binVars, cacheGhost, inputVars, indexVars, partial, Index, queryVars>>

\* the end of Load: the sentinel is reported, then LoadIndex is called on
\* filename + ".bai"; a missing index file leaves Index nil and is no
\* error.  The index file of the model has the magic of an index file.
LoadFinish ==
  /\ pc = "finish"
  /\ LET li == IF bai.present THEN LoadIndex(EncodeIndex(BaiMagic, bai, FALSE))
               ELSE [status |-> "ok", index |-> NoIndex, prog |-> << >>]
     IN /\ Index' = li.index
        /\ progress' = Append(progress, -1) \o li.prog
  /\ pc' = "ready"
  /\ stall' = 0
  /\ UNCHANGED <<binVars, cacheVars, inputVars, indexVars, partial, blockAdvance, References,
                 Alignments, loadVars, remainder, queryVars>>

(***************************************************************************)
(* GetMap and noindexGetMap.                                               *)
(***************************************************************************)
\* the record is in range but no row can be made of it: UnpackSequence
\* panics on an empty sequence, seq[:epad] on a negative width
RowFails(ba, b, e) == UnpackPanics(ba.seqPacked) \/ RowPanics(b, e)

\* what the loop body does with one parsed record whose refID matches
Examine(ba, b, e) ==
  IF InRange(ba, b, e)
    THEN [ba |-> ba, emitted |-> TRUE, row |-> FormatRow(ba, b, e)]
  ELSE [ba |-> ba, emitted |-> FALSE, row |-> << >>]

\* the rows of a list of examined records
RowsOf(ex) ==
  LET em == SelectSeq(ex, LAMBDA x : x.emitted)
  IN [i \in 1..Len(em) |-> em[i].row]

\* the loop of noindexGetMap over b.Alignments: records of other
\* references are skipped; the loop stops where a row cannot be made
RECURSIVE scanAlignments(_, _, _, _, _)
scanAlignments(als, ref, b, e, acc) ==
  IF Len(als) = 0 THEN [ex |-> acc, panic |-> FALSE]
  ELSE LET ba == Head(als)
       IN IF ba.refID # ref
            THEN scanAlignments(Tail(als), ref, b, e,
                                Append(acc, [ba |-> ba, emitted |-> FALSE, row |-> << >>]))
          ELSE IF InRange(ba, b, e) /\ RowFails(ba, b, e)
            THEN [ex |-> acc, panic |-> TRUE]
          ELSE scanAlignments(Tail(als), ref, b, e, Append(acc, Examine(ba, b, e)))

\* the record loop of GetMap over the bytes r: whole records are parsed; a
\* record of another reference ends the chunk (done); the rest is left over
RECURSIVE scanRecords(_, _, _, _, _)
scanRecords(r, ref, b, e, acc) ==
  IF Len(r) >= 4
    THEN LET blocksize == Uint32At(r, 0)
         IN IF Len(r) < blocksize + 4
              THEN [rest |-> r, ex |-> acc, done |-> FALSE, panic |-> FALSE]
            ELSE LET ba == parseAlignment(Slice(r, 4, 4 + blocksize))
                 IN IF ba.refID # ref
                      THEN [rest |-> r,
                            ex |-> Append(acc, [ba |-> ba, emitted |-> FALSE, row |-> << >>]),
                            done |-> TRUE, panic |-> FALSE]
                    ELSE IF InRange(ba, b, e) /\ RowFails(ba, b, e)
                      THEN [rest |-> r, ex |-> acc, done |-> FALSE, panic |-> TRUE]
                    ELSE scanRecords(SliceFrom(r, 4 + blocksize), ref, b, e,
                                     Append(acc, Examine(ba, b, e)))
  ELSE [rest |-> r, ex |-> acc, done |-> FALSE, panic |-> FALSE]

\* the arguments GetMap is called with
QueryRefs == 0..(NumRefs - 1)
QueryPos == {LeafSpan - 6, LeafSpan - 4, LeafSpan - 2, LeafSpan, LeafSpan + 3, RefLength + 1}
\* every pair of these positions on every reference, an end of 0, and the
\* reference ids next to the table on either side
Queries ==
  (QueryRefs \X QueryPos \X QueryPos)
    \cup (QueryRefs \X {0, LeafSpan} \X {0})
    \cup ({-1, NumRefs} \X {LeafSpan - 2} \X {LeafSpan})

\* which way a call goes: "refs" (b.References[refID] is out of range),
\* "range" (panic("invalid range")), "noindex" or "index"
PathOf(ref, b, e) ==
  IF ref < 0 \/ ref >= Len(References) THEN "refs"
  ELSE IF b > References[ref + 1].Length \/ e > References[ref + 1].Length THEN "range"
  ELSE IF ~Index.present THEN "noindex"
  ELSE "index"

\* GetMap up to the chunk loop, and the whole of noindexGetMap (which
\* panics in partial mode)
GetMapCall(ref, b, e) ==
  LET path == PathOf(ref, b, e)
      sc == IF path = "noindex" /\ ~partial
              THEN scanAlignments(Alignments, ref, b, e, << >>)
            ELSE [ex |-> << >>, panic |-> TRUE]
      bins == Index.Refs[ref].Bins
      bid == getBin(b, e)
  IN /\ pc = "ready"
     /\ query' = [refID |-> ref, beginPos |-> b, endPos |-> e, path |-> path]
     /\ examined' = sc.ex
     /\ result' = RowsOf(sc.ex)
     /\ chunks' = IF path = "index" /\ bid \in DOMAIN bins THEN bins[bid] ELSE << >>
     /\ ci' = 1
     /\ progress' = << >>
     /\ pc' = IF path = "index" THEN "chunk"
              ELSE IF sc.panic THEN "panic" ELSE "ready"
     /\ UNCHANGED <<binVars, cacheVars, inputVars, indexVars, mapVars, loadVars, remainder, stall,
                    pi, po, p2>>

\* the head of the loop over the chunks of the bin: the next chunk, or the
\* return of GetMap
ChunkBegin ==
  /\ pc = "chunk"
  /\ IF ci > Len(chunks)
       THEN /\ pc' = "ready"
            /\ progress' = Append(progress, -1)
            /\ UNCHANGED <<pi, po, p2, remainder>>
     ELSE /\ progress' = Append(progress, (ci * 100) \div Len(chunks))
          /\ pi' = Compressed(chunks[ci].Begin)
          /\ po' = Uncompressed(chunks[ci].Begin)
          /\ p2' = Compressed(chunks[ci].End)
          /\ remainder' = << >>
          /\ pc' = "block"
  /\ stall' = 0
  /\ UNCHANGED <<binVars, cacheVars, inputVars, indexVars, mapVars, loadVars, query, chunks, ci,
                 result, examined>>

\* loadBlock: the block at offset bid is read from the file, its length
\* noted in blockAdvance, its payload cached unless the map is partial.
\* In whole-file mode Load has closed the file (b.f = nil): Seek fails
\* and loadBlock panics.
loadBlock(c, adv, bid) ==
  LET j == BlockAt(file, bid)
  IN [panic |-> ~partial,
      adv |-> MapPut(adv, bid, BlockSize16(file[j].bc)),
      c |-> IF ~partial THEN cacheSet(c, bid, file[j].data) ELSE c,
      data |-> file[j].data]

\* one pass of the block loop of a chunk: the loop ends when pi is past
\* the block of the chunk's end; else the block is taken from the cache or
\* loaded, pi moves on by blockAdvance[pi], the records of the leftover
\* bytes and the block from po on are examined, and po becomes 0
BlockStep ==
  /\ pc = "block"
  /\ stall < MaxVisits
  /\ IF pi > p2
       THEN /\ ci' = ci + 1
            /\ pc' = "chunk"
            /\ UNCHANGED <<blocks, blockAdvance, pi, po, remainder, result, examined, stall>>
     ELSE LET g == cacheGet(blocks, pi)
              lb == IF g.ok THEN [panic |-> FALSE, adv |-> blockAdvance, c |-> g.c, data |-> g.value]
                    ELSE loadBlock(g.c, blockAdvance, pi)
              step == IF pi \in DOMAIN lb.adv THEN lb.adv[pi] ELSE 0
              sc == scanRecords(remainder \o SliceFrom(lb.data, po),
                                query.refID, query.beginPos, query.endPos, << >>)
          IN IF lb.panic
               THEN /\ pc' = "panic"
                    /\ UNCHANGED <<blocks, blockAdvance, pi, po, remainder, result, examined,
                                   stall, ci>>
             ELSE /\ blocks' = lb.c
                  /\ blockAdvance' = lb.adv
                  /\ pi' = pi + step
                  /\ stall' = IF step = 0 THEN stall + 1 ELSE 0
                  /\ remainder' = sc.rest
                  /\ examined' = examined \o sc.ex
                  /\ result' = result \o RowsOf(sc.ex)
                  /\ po' = IF sc.done \/ sc.panic THEN po ELSE 0
                  /\ ci' = IF sc.done /\ ~sc.panic THEN ci + 1 ELSE ci
                  /\ pc' = IF sc.panic THEN "panic" ELSE IF sc.done THEN "chunk" ELSE "block"
  /\ UNCHANGED <<binVars, cacheGhost, inputVars, indexVars, partial, Index, References, Alignments,
                 loadVars, query, chunks, p2, progress>>

(***************************************************************************)
(* Properties of Load and GetMap.                                          *)
(***************************************************************************)
\* a query that passed the checks of GetMap, with begin < end
ValidQuery ==
  /\ query.path \in {"index", "noindex"}
  /\ query.beginPos < query.endPos

\* the base of the record's unpacked sequence that belongs in column i of a
\* row that starts at b, a space where the sequence has none
ColumnOf(ba, b, i) ==
  LET useq == UnpackSequence(ba.seqPacked)
      k == b + i - ba.pos
  IN IF k >= 0 /\ k < Len(useq) THEN useq[k + 1] ELSE " "

\* C1: for begin < end <= reference length every row of GetMap (indexed or
\* not) has length end - begin, and its column i holds the base at index
\* begin + i - pos of the record's unpacked sequence when there is one and a
\* space otherwise; pos = 100, ACGT, query [95,115) gives 5 spaces, ACGT,
\* 11 spaces.
C1_RowIsWindowOfSequence ==
  /\ ValidQuery =>
       /\ result = RowsOf(examined)
       /\ \A n \in 1..Len(examined) :
            examined[n].emitted =>
              /\ Len(examined[n].row) = query.endPos - query.beginPos
              /\ \A i \in 0..(query.endPos - query.beginPos - 1) :
                   examined[n].row[i + 1] = ColumnOf(examined[n].ba, query.beginPos, i)
  /\ FormatRow([pos |-> 100, seqPacked |-> <<18, 72>>], 95, 115)
       = Spaces(5) \o <<"A", "C", "G", "T">> \o Spaces(11)

\* an indexed query has returned rows of a record that starts before begin
\* and of a record that starts after it
C1_Witness ==
  /\ ValidQuery /\ query.path = "index" /\ pc = "ready"
  /\ \E n \in 1..Len(examined) : examined[n].emitted /\ examined[n].ba.pos < query.beginPos
  /\ \E n \in 1..Len(examined) : examined[n].emitted /\ examined[n].ba.pos > query.beginPos

\* C2: a record examined by GetMap or noindexGetMap gives a row if and only
\* if its ref_id is the requested one and pos + template_length >= begin and
\* pos < end; a record whose pos equals end gives no row.
C2_RowIffIntersectsHalfOpen ==
  ValidQuery =>
    \A n \in 1..Len(examined) :
      examined[n].emitted <=>
        /\ examined[n].ba.refID = query.refID
        /\ examined[n].ba.pos + examined[n].ba.tlen >= query.beginPos
        /\ examined[n].ba.pos < query.endPos

\* C6: for every block start p visited by Load or loadBlock, blockAdvance[p]
\* is the length of the block that starts at p, the BC value plus 1, for
\* every BC value in 0..65535.
C6_AdvanceIsBlockLength ==
  pc # "unused" =>
    \A p \in DOMAIN blockAdvance :
      /\ BlockAt(file, p) # 0
      /\ blockAdvance[p] = file[BlockAt(file, p)].bc + 1

\* the preconditions of GetMap on the query made
Precondition ==
  /\ query.refID >= 0 /\ query.refID < Len(References)
  /\ query.beginPos <= References[query.refID + 1].Length
  /\ query.endPos <= References[query.refID + 1].Length
  /\ query.beginPos < query.endPos

\* C12: a GetMap call that violates a precondition (ref_id outside the
\* reference table, begin or end beyond the reference length, begin >= end)
\* fails fatally and never returns a result, with and without an index.
C12_BadQueryNeverReturns ==
  (query.path # "none" /\ pc = "ready") => Precondition

\* how often the sentinel -1 is among the values reported
RECURSIVE Sentinels(_)
Sentinels(pr) ==
  IF Len(pr) = 0 THEN 0 ELSE (IF Head(pr) = -1 THEN 1 ELSE 0) + Sentinels(Tail(pr))

\* C13: in every successful Load and every GetMap call that returns (with
\* or without an index) the progress callback gets the sentinel -1 exactly
\* once, as the last progress call of the operation.
C13_SentinelOnceAndLast ==
  pc = "ready" =>
    /\ Sentinels(progress) = 1
    /\ progress[Len(progress)] = -1

\* nibble k (from 1, the upper nibble of a byte first) of packed bytes
NibbleOf(packed, k) ==
  IF k % 2 = 1 THEN (packed[(k + 1) \div 2] \div 16) % 16 ELSE packed[k \div 2] % 16

\* C14: for every parsed record with seq_length >= 1 the sequence given by
\* parseAlignment and then UnpackSequence has exactly seq_length characters,
\* character i the IUPAC symbol of nibble i: one trailing "=" is removed
\* when seq_length is odd and nothing when it is even; seq_length 3 with
\* bytes 0x12 0x4F gives ACG.
C14_SequenceHasSeqLength ==
  /\ \A n \in 1..Len(Alignments) :
       LET ba == Alignments[n]
           useq == UnpackSequence(ba.seqPacked)
       IN ba.seqLen >= 1 =>
            /\ Len(useq) = ba.seqLen
            /\ \A k \in 1..ba.seqLen : useq[k] = packmap[NibbleOf(ba.seqPacked, k) + 1]
  /\ UnpackSequence(parseAlignment(EncodeBody(Pool[3])).seqPacked) = <<"A", "C", "G">>

\* C15: a Get(k) that reports a hit returns the bytes of the most recent
\* Set(k, ...), also when the next queue is full and key and value are
\* swapped with that queue's tail.
C15_HitReturnsLatestSet ==
  (latest.on /\ lastOp.op = "Get" /\ lastOp.ok) =>
    /\ lastOp.key \in DOMAIN latest.val
    /\ lastOp.value = latest.val[lastOp.key]

\* C16: in partial mode, when GetMap misses the cache for the block offset
\* pi and loads the block through loadBlock, the block is stored in the
\* S4-LRU cache: right after the step a fetch of that offset is a hit.
C16_MissedBlockIsCached ==
  [][(pc = "block" /\ partial /\ pi <= p2 /\ ~cacheGet(blocks, pi).ok)
       => cacheGet(blocks', pi).ok]_vars

\* the stream of a file, and what parsing it in one piece gives: the
\* reference table, the records and the incomplete tail
StreamBytes(f) == Concat([j \in 1..Len(f) |-> f[j].data])
StreamParse(f) == parseHead(StreamBytes(f), << >>, << >>)

\* the bytes of the chunk ch from its begin to the end of the block that
\* holds its end, and what examining them in one piece gives
ChunkBytes(f, ch) ==
  LET j1 == BlockAt(f, Compressed(ch.Begin))
      j2 == BlockAt(f, Compressed(ch.End))
  IN SliceFrom(Concat([j \in 1..(j2 - j1 + 1) |-> f[j1 + j - 1].data]), Uncompressed(ch.Begin))
RECURSIVE ChunksExamined(_, _)
ChunksExamined(f, chs) ==
  IF Len(chs) = 0 THEN << >>
  ELSE scanRecords(ChunkBytes(f, Head(chs)), query.refID, query.beginPos, query.endPos,
                   << >>).ex \o ChunksExamined(f, Tail(chs))

\* C17: parsing block by block with carry-over equals parsing the stream
\* in one piece, however the stream is cut into blocks: after the last
\* block Load in whole-file mode has in Alignments exactly the records of
\* the stream, once each and in order, and the bytes left over are the
\* incomplete tail; the block loop of GetMap examines the records of each
\* chunk the same way.
C17_BlockwiseEqualsStream ==
  /\ (pc = "finish" /\ ~partial) =>
       /\ completeHeader
       /\ References = StreamParse(file).refs
       /\ Alignments = StreamParse(file).als
       /\ remainder = StreamParse(file).rest
  /\ (pc = "ready" /\ query.path = "index") =>
       examined = ChunksExamined(file, chunks)

\* a file whose header straddles its first blocks has been loaded whole,
\* with two records or more, and an indexed query has examined two or more
C17_Witness ==
  /\ pc = "ready" /\ ~partial /\ query.path = "index"
  /\ Len(file[1].data) < Len(HeaderBytes)
  /\ Len(Alignments) >= 2
  /\ Len(examined) >= 2

\* C18: within one indexed GetMap call every alignment record of the file
\* gives at most one row, also when the bin has several chunks that touch
\* the same block (the records of a file of the model differ in their
\* reference and position).  Stated of the files every block of which
\* moves the offset on, so that no block is read twice in a row.
C18_OneRowPerRecord ==
  (query.path = "index" /\ \A p \in DOMAIN blockAdvance : blockAdvance[p] > 0) =>
    \A n, m \in 1..Len(examined) :
      (n < m /\ examined[n].emitted /\ examined[m].emitted)
        => examined[n].ba # examined[m].ba

\* C11: LoadIndex accepts a file only when its first four bytes are the
\* magic B, A, I, 1, and returns an error and no Index for every file
\* whose first four bytes differ from it.
C11_OnlyBaiMagicAccepted ==
  idxRes # NotLoaded =>
    LET magicOk == Len(idxFile) >= 4 /\ SubSeq(idxFile, 1, 4) = BaiMagic
    IN /\ idxRes.status = "ok" => magicOk
       /\ ~magicOk => idxRes.status = "error" /\ ~idxRes.index.present

(***************************************************************************)
(* Properties of the S4-LRU cache.                                         *)
(***************************************************************************)
IsLRU == blocks.kind = "lru"
Nodes(c) == 1..Len(c.items)
\* the queues that hold node n, and how often
Places(c, n) == {<<q, i>> \in (0..3) \X (1..Len(c.items)) : i <= Len(c.queues[q]) /\ c.queues[q][i] = n}
TotalItems(c) == Len(c.queues[0]) + Len(c.queues[1]) + Len(c.queues[2]) + Len(c.queues[3])

\* C7 as stated: for every capacity c >= 1 and every sequence of Set and Get
\* calls on newLRUCache(c), the four queues together never hold more than c
\* items.
C7_TotalWithinCapacity ==
  IsLRU => TotalItems(blocks) <= capacity

\* C7 amended: each queue holds at most ceil(c/4) items, so the four queues
\* together never hold more than 4 * ceil(c/4) items (c when c is a multiple
\* of 4, at most c + 3 otherwise).
C7_TotalWithinFourCaps ==
  IsLRU =>
    /\ \A q \in 0..3 : Len(blocks.queues[q]) <= (capacity + 3) \div 4
    /\ TotalItems(blocks) <= 4 * ((capacity + 3) \div 4)

\* a cache built with capacity 1 holds four items, one in every queue
C7_Witness ==
  IsLRU /\ capacity = 1 /\ TotalItems(blocks) = 4

\* C8: after any sequence of Set and Get calls (Set of an already cached key
\* included) every key of the lookup map maps to a node that carries that
\* key and is in exactly one queue, and every node in a queue is the node
\* the lookup map holds for its key.
C8_LookupMatchesQueues ==
  IsLRU =>
    /\ \A k \in DOMAIN blocks.data :
         /\ blocks.items[blocks.data[k]].key = k
         /\ Cardinality(Places(blocks, blocks.data[k])) = 1
    /\ \A q \in 0..3 : \A i \in 1..Len(blocks.queues[q]) :
         LET n == blocks.queues[q][i]
         IN /\ blocks.items[n].key \in DOMAIN blocks.data
            /\ blocks.data[blocks.items[n].key] = n

\* C9: after any sequence of Set and Get calls every node is in the queue
\* its qid names and in no other; the node a Set created or reused has qid 0
\* and is at the front of queue 0.
C9_QidNamesQueue ==
  IsLRU =>
    /\ \A n \in Nodes(blocks) :
         Places(blocks, n) # {} /\ \A pl \in Places(blocks, n) : pl[1] = blocks.items[n].qid
    /\ lastOp.op = "Set" =>
         /\ blocks.items[blocks.data[lastOp.key]].qid = 0
         /\ blocks.queues[0][1] = blocks.data[lastOp.key]

\* a Get has just swapped key and value with the tail of a full next queue
C9_Witness ==
  IsLRU /\ lastOp.op = "Get" /\ lastOp.path = "swap" /\ blocks.cap = 2

\* where key k is: the qid of its node, and whether the node is at the front
InQueueFront(c, k, q) ==
  /\ k \in DOMAIN c.data
  /\ c.items[c.data[k]].qid = q
  /\ Len(c.queues[q]) >= 1
  /\ c.queues[q][1] = c.data[k]

\* C10 as stated: with capacity 4 (one item per queue), after Set of keys
\* 1, 2, 3, 4 in that order every Get(1) hits, and key 1 is at the front of
\* queue 1 after the first, queue 2 after the second, queue 3 from the third.
C10_KeyOneClimbs ==
  (IsLRU /\ capacity = 4 /\ scen.sets = 4 /\ scen.key = 1 /\ scen.gets >= 1) =>
    /\ lastOp.ok
    /\ InQueueFront(blocks, 1, IF scen.gets < 3 THEN scen.gets ELSE 3)

\* C10 amended: with capacity 4, after Set of keys 1, 2, 3, 4 in that order
\* only key 4 is cached (each Set reuses the one node of queue 0), so Get(1)
\* misses; successive Get(4) calls all hit, and key 4 is at the front of
\* queue 1 after the first, queue 2 after the second, queue 3 from the third.
C10_LastKeyClimbs ==
  (IsLRU /\ capacity = 4 /\ scen.sets = 4) =>
    /\ scen.gets = 0 => DOMAIN blocks.data = {4}
    /\ (scen.gets >= 1 /\ scen.key # 4) => ~lastOp.ok
    /\ (scen.gets >= 1 /\ scen.key = 4) =>
         /\ lastOp.ok
         /\ InQueueFront(blocks, 4, IF scen.gets < 3 THEN scen.gets ELSE 3)

\* Set 1, 2, 3, 4 and then five Get(4) calls have been made on capacity 4
C10_Witness ==
  IsLRU /\ capacity = 4 /\ scen.sets = 4 /\ scen.key = 4 /\ scen.gets = ScenGets
     /\ lastOp.ok

(***************************************************************************)
(* Properties of the bin arithmetic.                                       *)
(***************************************************************************)
\* the levels of the binning scheme, narrowest first: shift and first bin
LevelShift == <<0, 3, 6, 9, 12>>
LevelBase == <<4681, 585, 73, 9, 1>>

\* the levels at which b >> 14 and (e-1) >> 14 agree
AgreeLevels(b, e) ==
  {l \in 1..5 : Shr(Shr(b, 14), LevelShift[l]) = Shr(Shr(e - 1, 14), LevelShift[l])}

\* the bin of the narrowest agreeing level, 0 when there is none
NarrowestBin(b, e) ==
  IF AgreeLevels(b, e) = {} THEN 0
  ELSE LET l == CHOOSE x \in AgreeLevels(b, e) : \A y \in AgreeLevels(b, e) : x <= y
       IN LevelBase[l] + Shr(Shr(b, 14), LevelShift[l])

\* C3: for b < e <= 2^29, getBin(b, e) is the bin of the narrowest level at
\* which b >> 14 and (e-1) >> 14 agree, and 0 when they agree at no level;
\* reg2bin(0,1) = 4681, reg2bin(0,16384) = 4681, reg2bin(0,16385) = 585 and
\* reg2bin(0,2^29) = 0.
C3_GetBinNarrowestLevel ==
  binRes # -1 =>
    /\ binRes = NarrowestBin(beginPos, endPos)
    /\ (beginPos = 0 /\ endPos = 1) => binRes = 4681
    /\ (beginPos = 0 /\ endPos = 16384) => binRes = 4681
    /\ (beginPos = 0 /\ endPos = 16385) => binRes = 585
    /\ (beginPos = 0 /\ endPos = MaxCoord) => binRes = 0

\* getBin has returned a bin above the leaf level for an interval that
\* crosses a 16 KB boundary by one base
C3_Witness == beginPos = 0 /\ endPos = 16385 /\ binRes = 585

\* C4: for b < e <= 2^29 the bin returned by getBin(b, e) is an element of
\* the list returned by getBins(b, e).
C4_BinInBins ==
  (binRes # -1 /\ binsDone) => binRes \in SeqToSet(binsRes)

\* the bins of every level that intersect [b >> 14, (e-1) >> 14], and bin 0
AllLevelBins(b, e) ==
  {0} \cup UNION {
     {LevelBase[l] + k : k \in Shr(Shr(b, 14), LevelShift[l])..Shr(Shr(e - 1, 14), LevelShift[l])}
       : l \in 1..5}

\* the bins of a list that belong to level l (level 0 is the root bin 0)
BinsOfLevel(s, l) ==
  IF l = 0 THEN {i \in 1..Len(s) : s[i] = 0}
  ELSE {i \in 1..Len(s) : s[i] >= LevelBase[l] /\ s[i] < LevelBase[l] + 2 ^ (15 - LevelShift[l])}

\* C5: getBins(b, e) returns exactly bin 0 plus the bins base + (b' >> s)
\* through base + (e' >> s) of each level; getBins(b, b+1) holds exactly one
\* bin at each of the six levels, and getBins(0, 1) is {0,1,9,73,585,4681}.
C5_BinsAreAllLevels ==
  binsDone =>
    /\ SeqToSet(binsRes) = AllLevelBins(beginPos, endPos)
    /\ endPos = beginPos + 1 =>
         \A l \in 0..5 : Cardinality(BinsOfLevel(binsRes, l)) = 1
    /\ (beginPos = 0 /\ endPos = 1) => SeqToSet(binsRes) = {0, 1, 9, 73, 585, 4681}

NextBam ==
  \/ LoadOpen
  \/ LoadBlock
  \/ LoadFinish
  \/ \E q \in Queries : GetMapCall(q[1], q[2], q[3])
  \/ ChunkBegin
  \/ BlockStep

SpecBam == InitBam /\ [][NextBam]_vars

====
